---------------------------- MODULE Spec2Model ----------------------------
(***************************************************************************)
(* LFPAnalysis/statistics_utils.py                                         *)
(*                                                                         *)
(*   time_resolved_regression_single_channel  (specification Spec)         *)
(*   permutation_regression_zscore            (specification SpecPerm)     *)
(*                                                                         *)
(* Numbers.  A table cell or a signal value is the record                  *)
(* [num |-> a, den2 |-> b], standing for the real  a / sqrt(b):            *)
(*   a raw integer v                  is  v / sqrt(1),                     *)
(*   a window mean  sum / win_len     is  sum / sqrt(win_len^2),           *)
(*   a standardized (x - mean)/(2*std) is (n*x - S) / sqrt(4*(n*Q - S^2)), *)
(* with S the column sum and Q the column sum of squares, so every value   *)
(* is exact.  The enumerated sampling rates divide 1000, so that 1000/sr   *)
(* is an exact integer-valued float.  Inputs hold no missing values.       *)
(***************************************************************************)
EXTENDS Integers, Sequences, FiniteSets, TLC

\* ------------------------------------------------------------------ bounds
NTrials  == 2      \* rows of timeseries and of regressors
MaxT     == 4      \* time samples of timeseries: 0..MaxT
MaxWin   == 3      \* win_len: 1..MaxWin
MaxSlide == 2      \* slide_len: -MaxSlide..MaxSlide
MaxCalls == 2      \* consecutive calls on the same regressors object

Trials        == 1..NTrials
SamplingRates == {250, 500, 1000}

VARIABLES
    pc,          \* position in time_resolved_regression_single_channel
    callNo,      \* which consecutive call this is
    args,        \* the call's parameters and the timeseries
    heap,        \* DataFrame objects: "caller" (the argument), "local" (made by apply)
    regressors,  \* the object the local name `regressors` refers to
    entryTable,  \* the caller's table as it was when the call was entered
    slices,      \* rows of sliding_window_view(...)[::slide_len]
    midpoints,   \* np.ceil(np.mean(slices, axis=1))
    sig,         \* reduced signal, sig[t][i] = column t, trial i
    formula,     \* the regression formula
    loopTable,   \* the regressors table as it was when the loop was entered
    ts,          \* loop variable of the per-time-index loop
    fit,         \* what the most recent fit was given: [t, y, X]
    all_res,     \* list of blocks, then the concatenated table (rows in order)
    pending,     \* all_res.ts.unique() values still to be processed
    ts_i,        \* the value processed by the latest conversion iteration
    calls,       \* what each finished call used and returned
    \* permutation_regression_zscore
    ppc, data, n_permutations, original_params, y_values, X_values,
    permuted_params, permuted_y_values, refitX, results

trVars   == <<pc, callNo, args, heap, regressors, entryTable, slices, midpoints,
              sig, formula, loopTable, ts, fit, all_res, pending, ts_i, calls>>
permVars == <<ppc, data, n_permutations, original_params, y_values, X_values,
              permuted_params, permuted_y_values, refitX, results>>
vars     == <<trVars, permVars>>

\* ----------------------------------------------------------------- helpers
Range(s) == {s[k] : k \in DOMAIN s}

RECURSIVE SumTo(_, _)
SumTo(f, k) == IF k = 0 THEN 0 ELSE f[k] + SumTo(f, k - 1)

\* sum of a sequence of integers
Sum(s) == SumTo(s, Len(s))

Val(a, b) == [num |-> a, den2 |-> b]
Raw(v)    == Val(v, 1)

\* a DataFrame: ordered column names and the column vectors (over Trials)
EmptyTable == [keys |-> <<>>, col |-> <<>>]

\* df[name] = vec : overwrite the column in place, or append a new column
SetColumn(tbl, name, vec) ==
    IF name \in Range(tbl.keys)
    THEN [tbl EXCEPT !.col = [c \in DOMAIN tbl.col |-> IF c = name THEN vec ELSE tbl.col[c]]]
    ELSE [keys |-> Append(tbl.keys, name),
          col  |-> [c \in (DOMAIN tbl.col) \cup {name} |->
                        IF c = name THEN vec ELSE tbl.col[c]]]

\* lambda x: (x - np.nanmean(x)) / (2*np.nanstd(x)), for one column
StandardizeColumn(x) ==
    LET n == NTrials
        S == Sum([i \in Trials |-> x[i].num])
        Q == Sum([i \in Trials |-> x[i].num * x[i].num])
    IN  [i \in Trials |-> Val(n * x[i].num - S, 4 * (n * Q - S * S))]

\* regressors.apply(...): a new table, same columns in the same order
Standardize(tbl) ==
    [keys |-> tbl.keys,
     col  |-> [c \in DOMAIN tbl.col |-> StandardizeColumn(tbl.col[c])]]


CeilDiv(a, b) == -((-a) \div b)

\* number of elements of a 0-based array
Len0(a) == Cardinality(DOMAIN a)

\* np.arange(T): the sample indices 0..T-1
Arange(T) == [k \in 0..(T - 1) |-> k]

\* np.lib.stride_tricks.sliding_window_view(a, w), for 1 <= w <= len(a):
\* one window per start position 0..len(a)-w, each holding w consecutive elements
SlidingWindowView(a, w) ==
    [k \in 0..(Len0(a) - w) |-> [m \in 0..(w - 1) |-> a[k + m]]]

\* a[::step] for step # 0: every step-th row from the first row (step > 0)
\* or from the last row backwards (step < 0)
StepSlice(a, step) ==
    LET L == Len0(a)
        s == IF step > 0 THEN step ELSE -step
        W == IF L = 0 THEN 0 ELSE (L - 1) \div s + 1
    IN  [j \in 0..(W - 1) |-> IF step > 0 THEN a[j * s] ELSE a[(L - 1) - j * s]]

\* np.floor in place of np.ceil
MidpointsFloored(sl) ==
    [j \in DOMAIN sl |->
        SumTo([m \in 1..Len0(sl[j]) |-> sl[j][m - 1]], Len0(sl[j])) \div Len0(sl[j])]

\* np.ceil(np.mean(slices, axis=1))
Midpoints(sl) ==
    [j \in DOMAIN sl |->
        CeilDiv(SumTo([m \in 1..Len0(sl[j]) |-> sl[j][m - 1]], Len0(sl[j])), Len0(sl[j]))]

\* sig[:, stride] = np.nanmean(timeseries[:, slices[stride]], axis=1)
SmoothedSignal(timeseries, sl) ==
    [j \in DOMAIN sl |->
        [i \in Trials |->
            Val(SumTo([m \in 1..Len0(sl[j]) |-> timeseries[i][sl[j][m - 1]]], Len0(sl[j])),
                Len0(sl[j]) * Len0(sl[j]))]]

\* sig = timeseries, read column by column
RawSignal(timeseries, T) ==
    [t \in 0..(T - 1) |-> [i \in Trials |-> Raw(timeseries[i][t])]]

\* f'sig ~ 1+' + '+'.join(regressors.keys())
Formula(tbl) == [lhs |-> "sig", rhs |-> <<"1">> \o tbl.keys]

\* the predictor columns a formula names
Predictors(f) == {f.rhs[k] : k \in 2..Len(f.rhs)}

\* patsy.dmatrices(formula, table): the response and the design matrix
DMatrices(f, tbl) ==
    [y |-> tbl.col[f.lhs],
     X |-> [c \in {"Intercept"} \cup Predictors(f) |->
               IF c = "Intercept" THEN [i \in Trials |-> Raw(1)] ELSE tbl.col[c]]]

\* the index of a fit's params: Intercept, then one coefficient per predictor
ParamIndex(f) == <<"Intercept">> \o SubSeq(f.rhs, 2, Len(f.rhs))

\* one block of results, tagged with the raw time index
Block(f, t, kind) ==
    [k \in 1..Len(ParamIndex(f)) |-> [coef |-> ParamIndex(f)[k], ts |-> t, kind |-> kind]]

RECURSIVE Concat(_)
\* pd.concat(blocks): the rows of the blocks, in order
Concat(blocks) ==
    IF blocks = <<>> THEN <<>> ELSE Head(blocks) \o Concat(Tail(blocks))

RECURSIVE Unique(_)
\* Series.unique(): the distinct values in order of first appearance
Unique(s) ==
    IF s = <<>> THEN <<>>
    ELSE LET u == Unique(SubSeq(s, 1, Len(s) - 1))
             v == s[Len(s)]
         IN  IF v \in Range(u) THEN u ELSE Append(u, v)

\* all_res.loc[all_res.ts == v, 'ts'] = w
AssignWhere(rows, v, w) ==
    [r \in DOMAIN rows |-> IF rows[r].ts = v THEN [rows[r] EXCEPT !.ts = w] ELSE rows[r]]

\* all_res['ts'] * (1000/sr)
ScaleAll(rows, sr) ==
    [r \in DOMAIN rows |-> [rows[r] EXCEPT !.ts = rows[r].ts * (1000 \div sr)]]

\* ------------------------------------------------------------------ inputs
\* non-constant columns, one value per trial
ColumnValues(name) ==
    [i \in Trials |-> Raw(IF name = "x" THEN i
                          ELSE IF name = "z" THEN i * i + 2
                          ELSE 9 - i)]

MkTable(keys) ==
    [keys |-> keys, col |-> [c \in Range(keys) |-> ColumnValues(c)]]

\* the regressors tables a caller passes
CallerTables == {MkTable(<<"x">>), MkTable(<<"x", "z">>), MkTable(<<"x", "sig">>)}

\* trials x times arrays: a ramp that differs in every cell, and a constant
Signals(T) ==
    {[i \in Trials |-> [t \in 0..(T - 1) |-> 10 * i + t]],
     [i \in Trials |-> [t \in 0..(T - 1) |-> 7]]}

Args ==
    {a \in [T : 0..MaxT, win_len : 1..MaxWin, slide_len : (-MaxSlide)..MaxSlide,
            standardize : BOOLEAN, smooth : BOOLEAN, permute : BOOLEAN,
            sr : SamplingRates, ramp : BOOLEAN] : TRUE}

Timeseries ==
    CHOOSE s \in Signals(args.T) : (s[1][0] = 7) = ~args.ramp

\* the permutation tester is not running
PermIdle ==
    /\ ppc = "idle"
    /\ data = EmptyTable
    /\ n_permutations = 0
    /\ original_params = <<>>
    /\ y_values = <<>>
    /\ X_values = <<>>
    /\ permuted_params = <<>>
    /\ permuted_y_values = <<>>
    /\ refitX = <<>>
    /\ results = <<>>

\* the locals of a call before its first statement
Entry ==
    /\ pc' = "standardize"
    /\ regressors' = "caller"
    /\ slices' = <<>>
    /\ midpoints' = <<>>
    /\ sig' = <<>>
    /\ formula' = [lhs |-> "", rhs |-> <<>>]
    /\ loopTable' = EmptyTable
    /\ ts' = 0
    /\ fit' = [t |-> -1, y |-> <<>>, X |-> <<>>]
    /\ all_res' = <<>>
    /\ pending' = <<>>
    /\ ts_i' = -1

Init ==
    /\ args \in Args
    /\ \E tbl \in CallerTables :
          /\ heap = [o \in {"caller", "local"} |-> IF o = "caller" THEN tbl ELSE EmptyTable]
          /\ entryTable = tbl
    /\ callNo = 1
    /\ calls = <<>>
    /\ pc = "standardize"
    /\ regressors = "caller"
    /\ slices = <<>>
    /\ midpoints = <<>>
    /\ sig = <<>>
    /\ formula = [lhs |-> "", rhs |-> <<>>]
    /\ loopTable = EmptyTable
    /\ ts = 0
    /\ fit = [t |-> -1, y |-> <<>>, X |-> <<>>]
    /\ all_res = <<>>
    /\ pending = <<>>
    /\ ts_i = -1
    /\ PermIdle

\* ------------------------------------- time_resolved_regression_single_channel
\* lines 141-142, standardize: the local name is rebound to a new table
StandardizeRegressors ==
    /\ pc = "standardize"
    /\ args.standardize
    /\ heap' = [heap EXCEPT !["local"] = Standardize(heap["caller"])]
    /\ regressors' = "local"
    /\ pc' = "smooth"
    /\ UNCHANGED <<callNo, args, entryTable, slices, midpoints, sig, formula,
                   loopTable, ts, fit, all_res, pending, ts_i, calls, permVars>>

\* lines 141: standardize is false, the local name keeps the caller's table
KeepRegressors ==
    /\ pc = "standardize"
    /\ ~args.standardize
    /\ pc' = "smooth"
    /\ UNCHANGED <<callNo, args, heap, regressors, entryTable, slices, midpoints,
                   sig, formula, loopTable, ts, fit, all_res, pending, ts_i, calls,
                   permVars>>

\* line 146 raises ValueError: the window is longer than the array
\* (sliding_window_view), or the slice step is zero
SmoothRaises ==
    /\ pc = "smooth"
    /\ args.smooth
    /\ args.win_len > args.T \/ args.slide_len = 0
    /\ pc' = "raised"
    /\ UNCHANGED <<callNo, args, heap, regressors, entryTable, slices, midpoints,
                   sig, formula, loopTable, ts, fit, all_res, pending, ts_i, calls,
                   permVars>>

\* lines 146-151: windows, midpoints and the window means
SmoothBins ==
    /\ pc = "smooth"
    /\ args.smooth
    /\ args.win_len <= args.T
    /\ args.slide_len # 0
    /\ slices' = StepSlice(SlidingWindowView(Arange(args.T), args.win_len), args.slide_len)
    /\ midpoints' = Midpoints(slices')
    /\ sig' = SmoothedSignal(Timeseries, slices')
    /\ pc' = "formula"
    /\ UNCHANGED <<callNo, args, heap, regressors, entryTable, formula, loopTable,
                   ts, fit, all_res, pending, ts_i, calls, permVars>>

\* lines 153-154: sig = timeseries
SmoothSkipped ==
    /\ pc = "smooth"
    /\ ~args.smooth
    /\ sig' = RawSignal(Timeseries, args.T)
    /\ pc' = "formula"
    /\ UNCHANGED <<callNo, args, heap, regressors, entryTable, slices, midpoints,
                   formula, loopTable, ts, fit, all_res, pending, ts_i, calls, permVars>>

\* lines 156-158: the formula is written once, from the table's columns
WriteFormula ==
    /\ pc = "formula"
    /\ all_res' = <<>>
    /\ formula' = Formula(heap[regressors])
    /\ loopTable' = heap[regressors]
    /\ ts' = 0
    /\ pc' = "loop"
    /\ UNCHANGED <<callNo, args, heap, regressors, entryTable, slices, midpoints,
                   sig, fit, pending, ts_i, calls, permVars>>

\* lines 160-177, one iteration: write the response column into the table the
\* local name refers to, fit, tag the block with ts and append it
Iteration(kind) ==
    /\ pc = "loop"
    /\ ts < Len0(sig)
    /\ heap' = [heap EXCEPT ![regressors] = SetColumn(heap[regressors], "sig", sig[ts])]
    /\ fit' = [t |-> ts,
               y |-> DMatrices(formula, heap'[regressors]).y,
               X |-> DMatrices(formula, heap'[regressors]).X]
    /\ all_res' = Append(all_res, Block(formula, ts, kind))
    /\ ts' = ts + 1
    /\ UNCHANGED <<pc, callNo, args, regressors, entryTable, slices, midpoints, sig,
                   formula, loopTable, pending, ts_i, calls, permVars>>

\* lines 168-176: plain OLS fit
FitPlain == ~args.permute /\ Iteration("ols")

\* lines 162-166: permutation_regression_zscore(regressors, formula, 500)
FitPermuted == args.permute /\ Iteration("perm")

\* line 179 raises ValueError: no objects to concatenate
ConcatRaises ==
    /\ pc = "loop"
    /\ ts = Len0(sig)
    /\ all_res = <<>>
    /\ pc' = "raised"
    /\ UNCHANGED <<callNo, args, heap, regressors, entryTable, slices, midpoints,
                   sig, formula, loopTable, ts, fit, all_res, pending, ts_i, calls,
                   permVars>>

\* lines 179-182: concatenate the blocks; with smooth, take the unique ts values
ConcatResults ==
    /\ pc = "loop"
    /\ ts = Len0(sig)
    /\ all_res # <<>>
    /\ all_res' = Concat(all_res)
    /\ pending' = IF args.smooth
                  THEN Unique([r \in DOMAIN all_res' |-> all_res'[r].ts])
                  ELSE <<>>
    /\ pc' = "convert"
    /\ UNCHANGED <<callNo, args, heap, regressors, entryTable, slices, midpoints,
                   sig, formula, loopTable, ts, fit, ts_i, calls, permVars>>

\* lines 182-183, one iteration of the loop over the unique ts values
ConvertSmoothed ==
    /\ pc = "convert"
    /\ args.smooth
    /\ pending # <<>>
    /\ ts_i' = Head(pending)
    /\ all_res' = AssignWhere(all_res, ts_i', midpoints[ts_i'] * (1000 \div args.sr))
    /\ pending' = Tail(pending)
    /\ UNCHANGED <<pc, callNo, args, heap, regressors, entryTable, slices, midpoints,
                   sig, formula, loopTable, ts, fit, calls, permVars>>

\* line 185: every ts scaled at once
ConvertRaw ==
    /\ pc = "convert"
    /\ ~args.smooth
    /\ all_res' = ScaleAll(all_res, args.sr)
    /\ pc' = "return"
    /\ UNCHANGED <<callNo, args, heap, regressors, entryTable, slices, midpoints,
                   sig, formula, loopTable, ts, fit, pending, ts_i, calls, permVars>>

\* the loop of lines 182-183 is over
ConvertDone ==
    /\ pc = "convert"
    /\ args.smooth
    /\ pending = <<>>
    /\ pc' = "return"
    /\ UNCHANGED <<callNo, args, heap, regressors, entryTable, slices, midpoints,
                   sig, formula, loopTable, ts, fit, all_res, pending, ts_i, calls,
                   permVars>>

\* line 187: return all_res
Return ==
    /\ pc = "return"
    /\ calls' = Append(calls, [formula |-> formula, table |-> all_res])
    /\ pc' = "done"
    /\ UNCHANGED <<callNo, args, heap, regressors, entryTable, slices, midpoints,
                   sig, formula, loopTable, ts, fit, all_res, pending, ts_i, permVars>>

\* the caller calls again with the same regressors object, timeseries and parameters
CallAgain ==
    /\ pc = "done"
    /\ callNo < MaxCalls
    /\ callNo' = callNo + 1
    /\ entryTable' = heap["caller"]
    /\ heap' = [heap EXCEPT !["local"] = EmptyTable]
    /\ Entry
    /\ UNCHANGED <<args, calls, permVars>>

Next ==
    \/ StandardizeRegressors
    \/ KeepRegressors
    \/ SmoothRaises
    \/ SmoothBins
    \/ SmoothSkipped
    \/ WriteFormula
    \/ FitPlain
    \/ FitPermuted
    \/ ConcatRaises
    \/ ConcatResults
    \/ ConvertSmoothed
    \/ ConvertRaw
    \/ ConvertDone
    \/ Return
    \/ CallAgain

Spec == Init /\ [][Next]_vars

\* --------------------------------------------- permutation_regression_zscore
(***************************************************************************)
(* The tester is modelled on data with a response y and one predictor x,   *)
(* formula 'y ~ x'.  OLS on the design [Intercept, x] is computed exactly: *)
(* with n observations, Sx = sum x, Sy = sum y, Sxy = sum x*y,             *)
(* Sxx = n*sum x^2 - Sx^2 (nonzero: x is not constant),                    *)
(*     x         = (n*Sxy - Sx*Sy) / Sxx                                   *)
(*     Intercept = (Sy - x*Sx) / n                                         *)
(* and every coefficient is kept as a numerator over the common            *)
(* denominator n*Sxx.                                                      *)
(***************************************************************************)
NObs    == 3      \* observations in data
MaxPerm == 2      \* n_permutations: -1..MaxPerm

Obs      == 1..NObs
YValues  == {0, 1, 3}
XColumns == {[i \in Obs |-> i], [i \in Obs |-> i * i]}
Coefs    == <<"Intercept", "x">>

\* OLS(y, X).fit().params
OLS(y, X) ==
    LET n   == NObs
        Sx  == Sum(X["x"])
        Sy  == Sum(y)
        Sxy == Sum([i \in Obs |-> X["x"][i] * y[i]])
        Sxx == n * Sum([i \in Obs |-> X["x"][i] * X["x"][i]]) - Sx * Sx
        b   == n * Sxy - Sx * Sy
    IN  [c \in Range(Coefs) |->
            [num |-> IF c = "x" THEN n * b ELSE Sy * Sxx - b * Sx, den |-> n * Sxx]]

\* fit_permuted_model(y_permuted, X)
FitPermutedModel(y_permuted, X) == OLS(y_permuted, X)

\* the bijections of Obs
Bijections == {p \in [Obs -> Obs] : \A i, j \in Obs : p[i] = p[j] => i = j}

\* the possible results of sampling len(y) positions of y with replacement
Resample(y) == {[i \in Obs |-> y[p[i]]] : p \in [Obs -> Obs]}

\* the possible results of np.random.permutation(y): a shuffled copy of y
Permutation(y) == {[i \in Obs |-> y[p[i]]] : p \in Bijections}

\* patsy.dmatrices('y ~ x', data)
DesignOf(tbl) ==
    [y |-> tbl.col["y"],
     X |-> [c \in Range(Coefs) |-> IF c = "Intercept" THEN [i \in Obs |-> 1] ELSE tbl.col[c]]]

\* lines 54-71: the summary table, one row per coefficient.
\* Permuted_Mean is num/den (0/0 is NaN: the mean of no draws);
\* Permuted_Std is sqrt(rad)/den; Z_Score is num/sqrt(rad) when rad > 0,
\* and the result of a float division by zero otherwise (NaN for 0/0 and
\* for NaN operands, +-inf for a nonzero numerator)
Summary(orig, draws) ==
    LET P == Len(draws)
    IN  [k \in 1..Len(Coefs) |->
          LET c   == Coefs[k]
              S   == Sum([d \in 1..P |-> draws[d][c].num])
              Q   == Sum([d \in 1..P |-> draws[d][c].num * draws[d][c].num])
              rad == P * Q - S * S
              top == P * orig[c].num - S
              z   == IF P = 0 \/ (rad = 0 /\ top = 0) THEN "nan"
                     ELSE IF rad = 0 THEN (IF top > 0 THEN "inf" ELSE "-inf")
                     ELSE "finite"
          IN  [coef              |-> c,
               Original_Estimate |-> orig[c],
               Permuted_Mean     |-> [num |-> S, den |-> P * orig[c].den],
               Permuted_Std      |-> [rad |-> rad, den |-> P * orig[c].den],
               Z_Score           |-> [kind |-> z, num |-> top, rad |-> rad],
               P_Value           |-> IF z = "nan" THEN "nan"
                                     ELSE IF z = "finite" THEN "2*(1-cdf(|z|))"
                                     ELSE "0"]]

\* the time-resolved driver is not running
DriverIdle ==
    /\ pc = "idle"
    /\ callNo = 0
    /\ args = [T |-> 0, win_len |-> 1, slide_len |-> 1, standardize |-> FALSE,
               smooth |-> FALSE, permute |-> FALSE, sr |-> 500, ramp |-> FALSE]
    /\ heap = [o \in {"caller", "local"} |-> EmptyTable]
    /\ regressors = "caller"
    /\ entryTable = EmptyTable
    /\ slices = <<>>
    /\ midpoints = <<>>
    /\ sig = <<>>
    /\ formula = [lhs |-> "", rhs |-> <<>>]
    /\ loopTable = EmptyTable
    /\ ts = 0
    /\ fit = [t |-> -1, y |-> <<>>, X |-> <<>>]
    /\ all_res = <<>>
    /\ pending = <<>>
    /\ ts_i = -1
    /\ calls = <<>>

PermInit ==
    /\ DriverIdle
    /\ ppc = "start"
    /\ \E y \in [Obs -> YValues], x \in XColumns :
          data = [keys |-> <<"y", "x">>,
                  col  |-> [c \in {"y", "x"} |-> IF c = "y" THEN y ELSE x]]
    /\ n_permutations \in (-1)..MaxPerm
    /\ original_params = <<>>
    /\ y_values = <<>>
    /\ X_values = <<>>
    /\ permuted_params = <<>>
    /\ permuted_y_values = <<>>
    /\ refitX = <<>>
    /\ results = <<>>

\* lines 35-47: the original fit and the arrays the loop works on
FitOriginal ==
    /\ ppc = "start"
    /\ original_params' = OLS(DesignOf(data).y, DesignOf(data).X)
    /\ y_values' = DesignOf(data).y
    /\ X_values' = DesignOf(data).X
    /\ permuted_params' = <<>>
    /\ permuted_y_values' = <<>>
    /\ ppc' = "permute"
    /\ UNCHANGED <<data, n_permutations, refitX, results, trVars>>

\* lines 48-51, one iteration of range(n_permutations)
Draw ==
    /\ ppc = "permute"
    /\ Len(permuted_params) < n_permutations
    /\ \E y_permuted \in Permutation(y_values) :
          /\ permuted_params' = Append(permuted_params, FitPermutedModel(y_permuted, X_values))
          /\ permuted_y_values' = Append(permuted_y_values, y_permuted)
          /\ refitX' = Append(refitX, X_values)
    /\ UNCHANGED <<ppc, data, n_permutations, original_params, y_values, X_values,
                   results, trVars>>

\* lines 54-71 and 108: the loop is over (at once when n_permutations < 1);
\* summarize and return
Summarize ==
    /\ ppc = "permute"
    /\ Len(permuted_params) >= n_permutations
    /\ results' = Summary(original_params, permuted_params)
    /\ ppc' = "done"
    /\ UNCHANGED <<data, n_permutations, original_params, y_values, X_values,
                   permuted_params, permuted_y_values, refitX, trVars>>

PermNext ==
    \/ FitOriginal
    \/ Draw
    \/ Summarize

SpecPerm == PermInit /\ [][PermNext]_vars

\* ------------------------------------------------------------------ claims
\* the number of coefficients of the call's fits
NCoef == Len(ParamIndex(formula))

\* the time index whose block row r of the concatenated table came from
Origin(r) == (r - 1) \div NCoef

\* the ts value the rows of time index t are to carry
ExpectedTs(t) == (IF args.smooth THEN midpoints[t] ELSE t) * (1000 \div args.sr)

\* the call's win_len and slide_len are valid for the smoothing it asks for
ValidWindow == args.smooth => (args.slide_len >= 1 /\ args.win_len <= args.T)

\* the table the call returns is complete
Converted == pc \in {"return", "done"}

\* a and b hold the same values the same number of times
SameValues(a, b) ==
    /\ DOMAIN a = DOMAIN b
    /\ \A v \in Range(a) \cup Range(b) :
          Cardinality({i \in DOMAIN a : a[i] = v}) = Cardinality({i \in DOMAIN b : b[i] = v})

\* C1: after the timestamp conversion every row produced for time index t
\* carries ts = midpoint[t] * (1000/sr) with smooth and t * (1000/sr) without,
\* for every valid win_len, slide_len and sr.
C1_TimestampsConverted ==
    (Converted /\ ValidWindow) =>
        \A r \in DOMAIN all_res : all_res[r].ts = ExpectedTs(Origin(r))

\* C2: the returned table has (coefficients) x (time indices) rows, and for
\* every coefficient and every time index exactly one row carries that
\* coefficient and that index's ts value.
C2_OneRowPerPair ==
    (pc = "done" /\ ValidWindow) =>
        /\ Len(all_res) = NCoef * Len0(sig)
        /\ \A k \in 1..NCoef, t \in DOMAIN sig :
              Cardinality({r \in DOMAIN all_res :
                              /\ all_res[r].coef = ParamIndex(formula)[k]
                              /\ all_res[r].ts = ExpectedTs(t)}) = 1

\* C3: every permuted response vector drawn so far holds exactly the values of
\* the original response, each as many times, and every refit was given the
\* one unchanged design matrix of the data; a finished run made P draws.
C3_DrawsArePermutations ==
    /\ \A d \in DOMAIN permuted_y_values :
          /\ SameValues(permuted_y_values[d], y_values)
          /\ refitX[d] = X_values
          /\ X_values = DesignOf(data).X
          /\ y_values = DesignOf(data).y
    /\ Len(refitX) = Len(permuted_y_values)
    /\ (ppc = "done" /\ n_permutations >= 0) => Len(permuted_y_values) = n_permutations

\* C3 witness: a finished run of at least two draws, one of them reordered
C3_Witness ==
    /\ ppc = "done"
    /\ Len(permuted_y_values) >= 2
    /\ \E d \in DOMAIN permuted_y_values : permuted_y_values[d] # y_values

\* C4: when a coefficient's permutation null has standard deviation 0 the
\* tester signals it: it never returns a table in which that coefficient has
\* a NaN or infinite z-score.
C4_DegenerateNullSignalled ==
    (ppc = "done" /\ n_permutations >= 1) =>
        \A k \in DOMAIN results :
            results[k].Permuted_Std.rad = 0 => results[k].Z_Score.kind = "finite"

\* C5: with a permutation count below 1 the tester fails before any fit is
\* computed and returns no table.
C5_RejectsNonPositiveCount ==
    n_permutations < 1 => (original_params = <<>> /\ ppc # "done")

\* C6: with smooth, a call with win_len > T or slide_len < 1 fails and
\* returns no table.
C6_SmoothRejectsBadWindow ==
    (args.smooth /\ (args.win_len > args.T \/ args.slide_len < 1)) => ~Converted

\* C7: with smooth, 1 <= win_len <= T and slide_len >= 1, there are
\* floor((T - win_len)/slide_len) + 1 windows (as many midpoints and signal
\* columns), window j covers the samples j*slide_len .. j*slide_len+win_len-1,
\* and its midpoint is the ceiling of the mean of those indices.
C7_WindowsAndMidpoints ==
    (/\ pc \in {"formula", "loop", "convert", "return", "done"}
     /\ args.smooth
     /\ args.slide_len >= 1
     /\ args.win_len <= args.T) =>
        LET w == args.win_len
            s == args.slide_len
            W == (args.T - w) \div s + 1
        IN  /\ DOMAIN slices = 0..(W - 1)
            /\ DOMAIN midpoints = 0..(W - 1)
            /\ DOMAIN sig = 0..(W - 1)
            /\ \A j \in 0..(W - 1) :
                  /\ DOMAIN slices[j] = 0..(w - 1)
                  /\ \A m \in 0..(w - 1) : slices[j][m] = j * s + m
                  \* ceiling of (sum of j*s .. j*s+w-1) / w, with 2*sum = w*(2*j*s + w - 1)
                  /\ 2 * midpoints[j] >= 2 * j * s + w - 1
                  /\ 2 * (midpoints[j] - 1) < 2 * j * s + w - 1

\* C7 witness: several strided windows of even length (a fractional mean)
C7_Witness ==
    /\ pc = "formula"
    /\ args.smooth
    /\ args.slide_len >= 2
    /\ args.win_len = 2
    /\ Len0(slices) >= 2
    /\ midpoints[1] = args.slide_len + 1

\* C8: the caller's regressors table is the same after the call as before it.
C8_CallerTableUnchanged ==
    pc = "done" => heap["caller"] = entryTable

\* C9: at every iteration the fit's response is column t of the reduced signal
\* and every predictor column of the formula holds the values it had when the
\* loop started.
C9_PredictorsKept ==
    fit.t >= 0 =>
        /\ fit.y = sig[fit.t]
        /\ \A c \in Predictors(formula) : fit.X[c] = loopTable.col[c]

\* C10: two calls in a row on the same regressors object (permute false) build
\* the same formula and return the same coefficients and number of rows.
C10_SecondCallSame ==
    (Len(calls) = 2 /\ ~args.permute) =>
        /\ calls[1].formula = calls[2].formula
        /\ {calls[1].table[r].coef : r \in DOMAIN calls[1].table}
             = {calls[2].table[r].coef : r \in DOMAIN calls[2].table}
        /\ Len(calls[1].table) = Len(calls[2].table)
=============================================================================
